---------------------------- MODULE Spec2Model ----------------------------
(***************************************************************************)
(* A model of IrcSession / IrcSessionPrivate (src/src/ircsession.cpp):     *)
(* the line framer, the command dispatcher, the connection handlers and   *)
(* the buffer registry.                                                    *)
(*                                                                         *)
(* Bytes are one-character strings; CR, LF, SP, TAB and SOH name the       *)
(* control bytes.  A QByteArray / QString is a sequence of bytes.  A null  *)
(* pointer is 0; an IrcBuffer* is an index into heap.                      *)
(*                                                                         *)
(* Every handler leaves in op the handler that ran, in events the signals  *)
(* it emitted, in io the calls it made on the socket, in dispatched the    *)
(* lines it handed to processLine and in ret the value it returned.        *)
(***************************************************************************)
EXTENDS Integers, Sequences, FiniteSets, TLC

VARIABLES
    socket,      \* d->socket: TRUE when non-null
    sockState,   \* socket->state(): "Unconnected", "Connecting", "Connected"
    peer,        \* the host and port the socket's last attempt was started on
    host,        \* d->host
    port,        \* d->port
    userName,    \* d->userName
    nickName,    \* d->nickName
    realName,    \* d->realName
    buffer,      \* d->buffer, the raw line buffer
    mainBuffer,  \* d->mainBuffer (0 is null)
    buffers,     \* d->buffers, newest entry first
    heap,        \* the IrcBuffer objects created so far, by address
    op,          \* the handler that ran last, with its argument (sendMessage:
                 \* the message and what socket->write returned)
    events,      \* the signals the last handler emitted, in order
    io,          \* the socket calls the last handler made, in order
    dispatched,  \* the lines the last handler passed to processLine
    ret,         \* the value the last handler returned
    pending,     \* framer harness: the bytes of the stream not yet delivered
    stream,      \* framer harness: the whole stream
    yielded,     \* framer harness: every line dispatched so far
    sent,        \* dispatcher harness: the lines the stream was built from
    welcomes,    \* connected() signals emitted since the transport connected
    connCount,   \* transport-connected notifications handled so far
    opened,      \* the settings at the open() that started the last attempt
    tree,        \* Navigator: the child count of every top-level item
    expanded,    \* Navigator: the top-level items that are expanded
    current,     \* Navigator: d.tree->currentItem() (NoItem is null)
    selected,    \* Navigator: the selected items
    itemData     \* Navigator: every item's Highlight and Badge data

vars == <<socket, sockState, peer, host, port, userName, nickName, realName,
          buffer, mainBuffer, buffers, heap, op, events, io, dispatched, ret,
          pending, stream, yielded, sent, welcomes, connCount, opened,
          tree, expanded, current, selected, itemData>>

config == <<host, port, userName, nickName, realName>>
session == <<socket, sockState, peer, config, mainBuffer, buffers, heap>>
attempt == <<peer, opened>>
navigator == <<tree, expanded, current, selected, itemData>>
harness == <<pending, stream, yielded, sent>>

-----------------------------------------------------------------------------
(* Bytes and byte strings *)

CR == "CR"
LF == "LF"
SP == " "
TAB == "TAB"
SOH == "SOH"

CRLF == <<CR, LF>>

Digits == {"0", "1", "2", "3", "4", "5", "6", "7", "8", "9"}

DigitVal(c) ==
    CASE c = "0" -> 0 [] c = "1" -> 1 [] c = "2" -> 2 [] c = "3" -> 3
      [] c = "4" -> 4 [] c = "5" -> 5 [] c = "6" -> 6 [] c = "7" -> 7
      [] c = "8" -> 8 [] c = "9" -> 9

\* QByteArray::trimmed() strips the bytes isspace() accepts from both ends.
IsSpace(c) == c \in {SP, CR, LF, TAB}

RECURSIVE TrimLeft(_)
TrimLeft(s) ==
    IF s # <<>> /\ IsSpace(Head(s)) THEN TrimLeft(Tail(s)) ELSE s

RECURSIVE TrimRight(_)
TrimRight(s) ==
    IF s # <<>> /\ IsSpace(s[Len(s)])
    THEN TrimRight(SubSeq(s, 1, Len(s) - 1))
    ELSE s

Trimmed(s) == TrimRight(TrimLeft(s))

\* QByteArray::left(n) and QByteArray::mid(pos), positions counted from 0.
Left(s, n) == SubSeq(s, 1, n)
Mid(s, pos) == SubSeq(s, pos + 1, Len(s))

\* QByteArray::indexOf(d): the first position of d in s, from 0; -1 if none.
IndexOf(s, d) ==
    LET hits == {i \in 0..(Len(s) - Len(d)) : SubSeq(s, i + 1, i + Len(d)) = d}
    IN IF hits = {} THEN -1 ELSE CHOOSE i \in hits : \A j \in hits : i <= j

\* QString::startsWith
StartsWith(s, p) == Len(s) >= Len(p) /\ SubSeq(s, 1, Len(p)) = p

\* QStringList::value(i): the i-th element from 0, or an empty string.
Value(list, i) == IF i + 1 <= Len(list) THEN list[i + 1] ELSE <<>>

RECURSIVE Flatten(_)
Flatten(ss) == IF ss = <<>> THEN <<>> ELSE Head(ss) \o Flatten(Tail(ss))


-----------------------------------------------------------------------------
(* Bounds of the model *)

\* the longest byte stream the framer harness delivers
MaxStream == 5
\* the most bytes the raw line buffer holds when data arrives
MaxBuffered == 3
\* the most IrcBuffer objects created
MaxBuffers == 3
\* the most connected() signals counted on one connection
MaxWelcomes == 2
\* the most lines in one dispatcher-harness stream
MaxLines == 2

-----------------------------------------------------------------------------
(* IrcParser: prefix, command and parameters of one line.                   *)
(* [':' prefix SP] command {SP param} [SP ':' trailing]                     *)

RECURSIVE ParseParams(_)
ParseParams(process) ==
    IF process = <<>> THEN <<>>
    ELSE IF Head(process) = ":" THEN <<Tail(process)>>
    ELSE LET i == IndexOf(process, <<SP>>)
             param == IF i = -1 THEN process ELSE Left(process, i)
             rest == IF i = -1 THEN <<>> ELSE Mid(process, i + 1)
         IN <<param>> \o ParseParams(rest)

Parse(line) ==
    LET hasPrefix == line # <<>> /\ Head(line) = ":"
        i == IndexOf(line, <<SP>>)
        prefix == IF ~hasPrefix THEN <<>>
                  ELSE IF i = -1 THEN Tail(line) ELSE SubSeq(line, 2, i)
        process == IF ~hasPrefix THEN line
                   ELSE IF i = -1 THEN <<>> ELSE Mid(line, i + 1)
        j == IndexOf(process, <<SP>>)
        command == IF j = -1 THEN process ELSE Left(process, j)
        rest == IF j = -1 THEN <<>> ELSE Mid(process, j + 1)
    IN [prefix |-> prefix, command |-> command, params |-> ParseParams(rest)]

-----------------------------------------------------------------------------
(* QString::toInt(&ok): an optional sign and at least one digit. *)

RECURSIVE DigitsValue(_)
DigitsValue(s) ==
    IF s = <<>> THEN 0
    ELSE 10 * DigitsValue(SubSeq(s, 1, Len(s) - 1)) + DigitVal(s[Len(s)])

Unsigned(s) == IF s # <<>> /\ Head(s) \in {"+", "-"} THEN Tail(s) ELSE s

ToIntOk(s) ==
    /\ Unsigned(s) # <<>>
    /\ \A k \in 1..Len(Unsigned(s)) : Unsigned(s)[k] \in Digits

ToInt(s) ==
    IF ~ToIntOk(s) THEN 0
    ELSE IF Head(s) = "-" THEN 0 - DigitsValue(Unsigned(s))
    ELSE DigitsValue(Unsigned(s))

RPL_WELCOME == 1

\* "uint code = command.toInt(...); code == Irc::RPL_WELCOME": a negative int
\* converts to a uint of at least 2^31, which is never RPL_WELCOME.
IsWelcome(n) == n >= 0 /\ n = RPL_WELCOME

-----------------------------------------------------------------------------
(* Byte strings of the protocol *)

S_PING == <<"P", "I", "N", "G">>
S_PONG == <<"P", "O", "N", "G">>
S_JOIN == <<"J", "O", "I", "N">>
S_PART == <<"P", "A", "R", "T">>
S_TOPIC == <<"T", "O", "P", "I", "C">>
S_NAMES == <<"N", "A", "M", "E", "S">>
S_LIST == <<"L", "I", "S", "T">>
S_INVITE == <<"I", "N", "V", "I", "T", "E">>
S_KICK == <<"K", "I", "C", "K">>
S_MODE == <<"M", "O", "D", "E">>
S_PRIVMSG == <<"P", "R", "I", "V", "M", "S", "G">>
S_NOTICE == <<"N", "O", "T", "I", "C", "E">>
S_WHO == <<"W", "H", "O">>
S_WHOIS == <<"W", "H", "O", "I", "S">>
S_WHOWAS == <<"W", "H", "O", "W", "A", "S">>
S_NICK == <<"N", "I", "C", "K">>
S_USER == <<"U", "S", "E", "R">>
S_PASS == <<"P", "A", "S", "S">>
S_QUIT == <<"Q", "U", "I", "T">>
S_KILL == <<"K", "I", "L", "L">>
S_ACTION == <<"A", "C", "T", "I", "O", "N">>
S_unknown == <<"u", "n", "k", "n", "o", "w", "n">>
S_star == <<"*">>

-----------------------------------------------------------------------------
(* Signals and socket calls *)

Signal(type) ==
    [type |-> type, kind |-> "", prefix |-> <<>>, params |-> <<>>,
     line |-> <<>>]

\* messageReceived(msg), msg = Irc<kind>Message::fromString(prefix, params);
\* line is the line the message was parsed from.
MessageReceived(kind, m, line) ==
    [type |-> "messageReceived", kind |-> kind, prefix |-> m.prefix,
     params |-> m.params, line |-> line]

Write(data) == [call |-> "write", data |-> data]
ConnectToHost(h, p) == [call |-> "connectToHost", data |-> <<h, p>>]
DisconnectFromHost == [call |-> "disconnectFromHost", data |-> <<>>]

Op(name, arg) == [name |-> name, arg |-> arg]

-----------------------------------------------------------------------------
(* IrcSessionPrivate::raw: one write of msg and "\r\n" if there is a socket *)

raw(msg) == IF socket THEN <<Write(msg \o CRLF)>> ELSE <<>>

rawReturn_SocketOnly(written) == socket

\* What raw returns, written being what socket->write returned: bytes starts
\* as -1, becomes written if there is a socket, and raw returns bytes != -1.
rawReturn(written) == (IF socket THEN written ELSE -1) # -1

(* IrcSessionPrivate::processLine: what one line emits and writes *)

Emit(kind, m, line) ==
    [events |-> <<MessageReceived(kind, m, line)>>, io |-> <<>>]

Numeric_WelcomeNotSurfaced(m, line) ==
    [events |-> IF IsWelcome(ToInt(m.command))
                THEN <<Signal("connected")>>
                ELSE <<MessageReceived("Numeric", m, line)>>,
     io |-> <<>>]

Numeric(m, line) ==
    [events |-> (IF IsWelcome(ToInt(m.command))
                 THEN <<Signal("connected")>> ELSE <<>>)
                \o <<MessageReceived("Numeric", m, line)>>,
     io |-> <<>>]

Ping_SecondParameter(m) ==
    [events |-> <<>>, io |-> raw(S_PONG \o <<SP>> \o Value(m.params, 1))]

Ping(m) ==
    [events |-> <<>>, io |-> raw(S_PONG \o <<SP>> \o Value(m.params, 0))]

Mode_SecondParameter(m, line) ==
    IF StartsWith(Value(m.params, 1), <<"#">>)
    THEN Emit("ChannelMode", m, line)
    ELSE Emit("UserMode", m, line)

Mode(m, line) ==
    IF StartsWith(Value(m.params, 0), <<"#">>)
    THEN Emit("ChannelMode", m, line)
    ELSE Emit("UserMode", m, line)

Privmsg_ActionWithoutSpace(m, line) ==
    IF StartsWith(Value(m.params, 1), <<SOH>> \o S_ACTION)
    THEN Emit("CtcpAction", m, line)
    ELSE IF StartsWith(Value(m.params, 1), <<SOH>>)
    THEN Emit("CtcpRequest", m, line)
    ELSE Emit("Private", m, line)

Privmsg(m, line) ==
    IF StartsWith(Value(m.params, 1), <<SOH>> \o S_ACTION \o <<SP>>)
    THEN Emit("CtcpAction", m, line)
    ELSE IF StartsWith(Value(m.params, 1), <<SOH>>)
    THEN Emit("CtcpRequest", m, line)
    ELSE Emit("Private", m, line)

Notice(m, line) ==
    IF StartsWith(Value(m.params, 1), <<SOH>>)
    THEN Emit("CtcpReply", m, line)
    ELSE Emit("Notice", m, line)

Unhandled_UnknownSurfaced(m, line) == Emit("Unknown", m, line)

\* The end of processLine's chain: the branch for every other command is
\* commented out.
Unhandled(m, line) == [events |-> <<>>, io |-> <<>>]

processLine(line) ==
    LET m == Parse(line)
        command == m.command
    IN IF ToIntOk(command) THEN Numeric(m, line)
       ELSE IF command = S_PING THEN Ping(m)
       ELSE IF command = S_JOIN THEN Emit("Join", m, line)
       ELSE IF command = S_PART THEN Emit("Part", m, line)
       ELSE IF command = S_TOPIC THEN Emit("Topic", m, line)
       ELSE IF command = S_NAMES THEN Emit("Names", m, line)
       ELSE IF command = S_LIST THEN Emit("List", m, line)
       ELSE IF command = S_INVITE THEN Emit("Invite", m, line)
       ELSE IF command = S_KICK THEN Emit("Kick", m, line)
       ELSE IF command = S_MODE THEN Mode(m, line)
       ELSE IF command = S_PRIVMSG THEN Privmsg(m, line)
       ELSE IF command = S_NOTICE THEN Notice(m, line)
       ELSE IF command = S_WHO THEN Emit("Who", m, line)
       ELSE IF command = S_WHOIS THEN Emit("Whois", m, line)
       ELSE IF command = S_WHOWAS THEN Emit("Whowas", m, line)
       ELSE Unhandled(m, line)

-----------------------------------------------------------------------------
(* IrcSessionPrivate::readLines: drains every line that ends with the     *)
(* delimiter; gives the rest of the buffer and the non-empty trimmed lines *)
(* in the order they are passed to processLine.                            *)

RECURSIVE readLines(_, _)
readLines(buf, delimiter) ==
    LET i == IndexOf(buf, delimiter)
    IN IF i = -1 THEN [buffer |-> buf, lines |-> <<>>]
       ELSE LET line == Trimmed(Left(buf, i))
                more == readLines(Mid(buf, i + Len(delimiter)), delimiter)
            IN [buffer |-> more.buffer,
                lines |-> (IF line # <<>> THEN <<line>> ELSE <<>>)
                          \o more.lines]

Framed_StrictOnly(buf) ==
    LET strict == readLines(buf, CRLF)
    IN [buffer |-> strict.buffer, lines |-> strict.lines]

\* The two framing passes of _q_readData over the buffer buf.
Framed(buf) ==
    LET strict == readLines(buf, CRLF)
        loose == readLines(strict.buffer, <<LF>>)
    IN [buffer |-> loose.buffer, lines |-> strict.lines \o loose.lines]

Processed(lines) == [k \in 1..Len(lines) |-> processLine(lines[k])]

CountConnected(evs) ==
    Cardinality({k \in 1..Len(evs) : evs[k].type = "connected"})

(* IrcSessionPrivate::_q_readData on the bytes data read from the socket *)
q_readData(data) ==
    LET f == Framed(buffer \o data)
        out == Processed(f.lines)
        evs == Flatten([k \in 1..Len(out) |-> out[k].events])
    IN /\ buffer' = f.buffer
       /\ dispatched' = f.lines
       /\ events' = evs
       /\ io' = Flatten([k \in 1..Len(out) |-> out[k].io])
       /\ welcomes' = welcomes + CountConnected(evs)
       /\ op' = Op("_q_readData", data)
       /\ ret' = 0
       /\ UNCHANGED <<session, connCount, opened,
                   navigator>>

-----------------------------------------------------------------------------
(* Inputs *)

UserNames == {<<>>, <<"u">>}
NickNames == {<<>>, <<"n">>}
RealNames == {<<>>, <<"r">>}
Passwords == {<<>>, <<"p">>}

L_PingA == S_PING \o <<SP, ":", "a">>
L_Welcome == <<"0", "0", "1", SP, "n">>
L_JoinC == <<":", "n", SP>> \o S_JOIN \o <<SP, "#", "c">>
L_NickX == <<":", "n", SP>> \o S_NICK \o <<SP, "x">>

\* What one readAll() may return: whole lines, several lines, parts of a line.
Chunks ==
    { L_PingA \o CRLF,
      L_Welcome \o CRLF,
      L_JoinC \o CRLF,
      L_NickX \o CRLF,
      L_PingA \o CRLF \o L_Welcome \o CRLF,
      L_Welcome \o CRLF \o L_Welcome \o <<LF>>,
      S_PING \o CRLF,
      <<"P", "I">>,
      <<"N", "G", SP, "b", CR, LF>> }

-----------------------------------------------------------------------------
(* Handlers *)

Outputs(o, evs, calls, r) ==
    /\ op' = o
    /\ events' = evs
    /\ io' = calls
    /\ dispatched' = <<>>
    /\ ret' = r

OpenRefused_RealNameUnchecked == userName = <<>> \/ nickName = <<>>

\* The three checks of IrcSession::open that refuse the call.
OpenRefused == userName = <<>> \/ nickName = <<>> \/ realName = <<>>

\* The port the constructor sets.
DefaultPort == 6667

\* A socket that was never told to connect.
NoPeer == <<>>

\* The settings a connection is made with.
Settings ==
    [host |-> host, port |-> port, userName |-> userName,
     realName |-> realName]

q_reconnect_AttemptRestarted ==
    /\ io' = IF socket THEN <<ConnectToHost(host, port)>> ELSE <<>>
    /\ sockState' = IF socket THEN "Connecting" ELSE sockState
    /\ peer' = IF socket THEN <<host, port>> ELSE peer

\* IrcSessionPrivate::_q_reconnect. QAbstractSocket::connectToHost starts an
\* attempt on an unconnected socket and is ignored (with a warning) otherwise.
q_reconnect ==
    /\ io' = IF socket THEN <<ConnectToHost(host, port)>> ELSE <<>>
    /\ sockState' = IF socket /\ sockState = "Unconnected"
                    THEN "Connecting" ELSE sockState
    /\ peer' = IF socket /\ sockState = "Unconnected"
               THEN <<host, port>> ELSE peer

\* IrcSession::open
Open ==
    /\ op' = Op("open", <<>>)
    /\ events' = <<>>
    /\ dispatched' = <<>>
    /\ ret' = 0
    /\ IF OpenRefused
       THEN /\ io' = <<>>
            /\ UNCHANGED <<sockState, attempt>>
       ELSE /\ q_reconnect
            /\ opened' = IF socket /\ sockState = "Unconnected"
                         THEN Settings ELSE opened
    /\ UNCHANGED <<socket, config, buffer, mainBuffer, buffers, heap, harness,
                   welcomes, connCount, navigator>>

\* IrcSession::close. QAbstractSocket::disconnectFromHost closes a connected
\* socket, which signals disconnected(); an attempt in progress goes on.
Close ==
    /\ Outputs(Op("close", <<>>),
               IF socket /\ sockState = "Connected"
               THEN <<Signal("disconnected")>> ELSE <<>>,
               IF socket THEN <<DisconnectFromHost>> ELSE <<>>,
               0)
    /\ sockState' = IF socket /\ sockState = "Connected"
                    THEN "Unconnected" ELSE sockState
    /\ UNCHANGED <<socket, config, buffer, mainBuffer, buffers, heap, harness,
                   welcomes, connCount, attempt,
                   navigator>>

\* IrcSession::createBuffer: a new IrcBuffer at the next address.
createBuffer(pattern) == Append(heap, [pattern |-> pattern])

Handshake_NickBeforePass(password) ==
    <<Write(S_NICK \o <<SP>> \o nickName \o CRLF)>>
    \o (IF password # <<>>
        THEN <<Write(S_PASS \o <<SP>> \o password \o CRLF)>> ELSE <<>>)
    \o <<Write(S_USER \o <<SP>> \o userName \o <<SP>> \o S_unknown \o <<SP>>
               \o S_unknown \o <<SP, ":">> \o realName \o CRLF)>>

\* The registration lines _q_connected writes, given the password the
\* password() signal returned.
Handshake(password) ==
    (IF password # <<>>
     THEN <<Write(S_PASS \o <<SP>> \o password \o CRLF)>> ELSE <<>>)
    \o <<Write(S_NICK \o <<SP>> \o nickName \o CRLF)>>
    \o <<Write(S_USER \o <<SP>> \o userName \o <<SP>> \o S_unknown \o <<SP>>
               \o S_unknown \o <<SP, ":">> \o realName \o CRLF)>>

q_connected_NoMainBuffer(password) ==
    /\ Outputs(Op("_q_connected", password),
               <<Signal("connecting"), Signal("password")>>,
               Handshake(password),
               0)
    /\ UNCHANGED <<socket, config, buffer, buffers, heap, mainBuffer, attempt,
                   navigator>>

q_connected_ConnectingNotEmitted(password) ==
    /\ Outputs(Op("_q_connected", password), <<Signal("password")>>,
               Handshake(password), 0)
    /\ heap' = createBuffer(S_star)
    /\ mainBuffer' = Len(heap) + 1
    /\ UNCHANGED <<socket, config, buffer, buffers, attempt,
                   navigator>>

\* IrcSessionPrivate::_q_connected
q_connected(password) ==
    /\ Outputs(Op("_q_connected", password),
               <<Signal("connecting"), Signal("password")>>,
               Handshake(password),
               0)
    /\ heap' = createBuffer(S_star)
    /\ mainBuffer' = Len(heap) + 1
    /\ UNCHANGED <<socket, config, buffer, buffers, attempt,
                   navigator>>

q_disconnected_Reconnects ==
    /\ Outputs(Op("_q_disconnected", <<>>), <<Signal("disconnected")>>,
               <<ConnectToHost(host, port)>>, 0)
    /\ UNCHANGED <<socket, config, buffer, mainBuffer, buffers, heap, attempt,
                   navigator>>

q_disconnected_BufferCleared ==
    /\ Outputs(Op("_q_disconnected", <<>>), <<Signal("disconnected")>>,
               <<>>, 0)
    /\ buffer' = <<>>
    /\ UNCHANGED <<socket, config, mainBuffer, buffers, heap, attempt,
                   navigator>>

\* IrcSessionPrivate::_q_disconnected
q_disconnected ==
    /\ Outputs(Op("_q_disconnected", <<>>), <<Signal("disconnected")>>,
               <<>>, 0)
    /\ UNCHANGED <<socket, config, buffer, mainBuffer, buffers, heap, attempt,
                   navigator>>

\* IrcSessionPrivate::_q_error
q_error ==
    /\ Outputs(Op("_q_error", <<>>), <<>>, <<>>, 0)
    /\ UNCHANGED <<socket, config, buffer, mainBuffer, buffers, heap, attempt,
                   navigator>>

\* IrcSession::setHost and IrcSession::setPort
SetHost(h) ==
    /\ host' = h
    /\ Outputs(Op("setHost", h), <<>>, <<>>, 0)
    /\ UNCHANGED <<socket, sockState, port, userName, nickName, realName,
                   buffer, mainBuffer, buffers, heap, harness, welcomes,
                   connCount, attempt,
                   navigator>>

SetPort(p) ==
    /\ port' = p
    /\ Outputs(Op("setPort", p), <<>>, <<>>, 0)
    /\ UNCHANGED <<socket, sockState, host, userName, nickName, realName,
                   buffer, mainBuffer, buffers, heap, harness, welcomes,
                   connCount, attempt,
                   navigator>>

\* The setters of the three names.
SetUserName(name) ==
    /\ userName' = name
    /\ Outputs(Op("setUserName", name), <<>>, <<>>, 0)
    /\ UNCHANGED <<socket, sockState, host, port, nickName, realName, buffer,
                   mainBuffer, buffers, heap, harness, welcomes, connCount,
                   attempt,
                   navigator>>

SetNickName(name) ==
    /\ nickName' = IF nickName # name THEN name ELSE nickName
    /\ Outputs(Op("setNickName", name), <<>>, <<>>, 0)
    /\ UNCHANGED <<socket, sockState, host, port, userName, realName, buffer,
                   mainBuffer, buffers, heap, harness, welcomes, connCount,
                   attempt,
                   navigator>>

SetRealName(name) ==
    /\ realName' = name
    /\ Outputs(Op("setRealName", name), <<>>, <<>>, 0)
    /\ UNCHANGED <<socket, sockState, host, port, userName, nickName, buffer,
                   mainBuffer, buffers, heap, harness, welcomes, connCount,
                   attempt,
                   navigator>>

\* IrcSession::setSocket with a null pointer (fresh = FALSE) or with a new,
\* unconnected socket (fresh = TRUE). The old socket is disconnected from the
\* session's slots, so its state no longer reaches the session.
SetSocket(fresh) ==
    /\ socket' = IF socket # fresh \/ fresh THEN fresh ELSE socket
    /\ sockState' = IF socket # fresh \/ fresh THEN "Unconnected" ELSE sockState
    /\ peer' = IF socket # fresh \/ fresh THEN NoPeer ELSE peer
    /\ Outputs(Op("setSocket", <<fresh>>), <<>>, <<>>, 0)
    /\ UNCHANGED <<config, buffer, mainBuffer, buffers, heap, harness,
                   welcomes, connCount, opened,
                   navigator>>

\* What message.toString() may give sendMessage.
Messages == {S_QUIT, S_PING \o <<SP, "a">>}

\* What QIODevice::write may return for data: the number of bytes taken, or
\* -1; always -1 on a socket that is not open.
WriteResults(data) ==
    IF socket /\ sockState # "Unconnected" THEN {Len(data), -1} ELSE {-1}

\* IrcSession::sendMessage
SendMessage(message) ==
    /\ \E written \in WriteResults(message \o CRLF) :
          Outputs(Op("sendMessage",
                     [message |-> message, written |-> written]),
                  <<>>, raw(message), rawReturn(written))
    /\ UNCHANGED <<session, buffer, harness, welcomes, connCount, opened,
                   navigator>>

-----------------------------------------------------------------------------
(* The socket's notifications *)

\* connected(): the attempt succeeded
TransportConnected ==
    /\ socket /\ sockState = "Connecting"
    /\ Len(heap) < MaxBuffers
    /\ sockState' = "Connected"
    /\ \E password \in Passwords : q_connected(password)
    /\ welcomes' = 0
    /\ connCount' = connCount + 1
    /\ UNCHANGED harness

\* error(): the attempt failed
TransportFailed ==
    /\ socket /\ sockState = "Connecting"
    /\ sockState' = "Unconnected"
    /\ q_error
    /\ UNCHANGED <<harness, welcomes, connCount>>

\* disconnected(): the peer closed the connection
TransportClosed ==
    /\ socket /\ sockState = "Connected"
    /\ sockState' = "Unconnected"
    /\ q_disconnected
    /\ UNCHANGED <<harness, welcomes, connCount>>

\* readyRead(): data arrived on the connection
ReadyRead ==
    /\ socket /\ sockState = "Connected"
    /\ Len(buffer) <= MaxBuffered
    /\ \E data \in Chunks : q_readData(data)
    /\ welcomes' <= MaxWelcomes
    /\ UNCHANGED harness

-----------------------------------------------------------------------------
(* Navigator (src/src/gui/navigator.cpp) over a QTreeWidget of two levels.  *)
(* An item is <<i, 0>>, the i-th top-level item, or <<i, j>>, its j-th      *)
(* child; NoItem is the null pointer.                                       *)

NoItem == <<0, 0>>

\* The items of a tree in the order QTreeWidgetItemIterator visits them.
ItemsInOrder(t) ==
    Flatten([i \in 1..Len(t) |->
                <<<<i, 0>>>> \o [j \in 1..t[i] |-> <<i, j>>]])

TreeItems == ItemsInOrder(tree)

Position(item) == CHOOSE k \in 1..Len(TreeItems) : TreeItems[k] = item

\* !item->parent() || item->parent()->isExpanded()
Shown(item, exp) == item[2] = 0 \/ item[1] \in exp

\* Navigator::topLevelItem(index); -1 is the last one.
topLevelItem(index) ==
    IF index = -1 THEN <<Len(tree), 0>> ELSE <<index + 1, 0>>

\* Navigator::lastItem
lastItem ==
    LET item == topLevelItem(-1)
    IN IF tree[item[1]] > 0 THEN <<item[1], tree[item[1]]>> ELSE item

\* Navigator::nextItem
nextItem(from) ==
    IF from = NoItem THEN NoItem
    ELSE LET hits == {k \in (Position(from) + 1)..Len(TreeItems) :
                         Shown(TreeItems[k], expanded)}
         IN IF hits = {} THEN NoItem
            ELSE TreeItems[CHOOSE k \in hits : \A j \in hits : k <= j]

\* Navigator::previousItem
previousItem(from) ==
    IF from = NoItem THEN NoItem
    ELSE LET hits == {k \in 1..(Position(from) - 1) :
                         Shown(TreeItems[k], expanded)}
         IN IF hits = {} THEN NoItem
            ELSE TreeItems[CHOOSE k \in hits : \A j \in hits : k >= j]

\* Navigator::setCurrentItem on a tree whose expanded items are exp. The
\* widget's default selection mode selects the current item alone. A view
\* that is shown scrolls to the new current item, which expands its parent;
\* one that is not shown leaves the parent collapsed.
setCurrentItem(item, exp) ==
    /\ current' = item
    /\ selected' = {item}
    /\ expanded' \in IF Shown(item, exp) THEN {exp}
                     ELSE {exp, exp \cup {item[1]}}

NavigatorOutputs(name) ==
    /\ Outputs(Op(name, <<>>), <<>>, <<>>, 0)
    /\ UNCHANGED <<session, buffer, harness, welcomes, connCount, opened>>

\* Navigator::moveToNextItem
MoveToNextItem ==
    /\ LET item == nextItem(current)
       IN setCurrentItem(IF item = NoItem THEN topLevelItem(0) ELSE item,
                         expanded)
    /\ NavigatorOutputs("moveToNextItem")
    /\ UNCHANGED <<tree, itemData>>

\* Navigator::moveToPrevItem
MoveToPrevItem ==
    /\ LET item == previousItem(current)
       IN setCurrentItem(IF item = NoItem THEN lastItem ELSE item, expanded)
    /\ NavigatorOutputs("moveToPrevItem")
    /\ UNCHANGED <<tree, itemData>>

\* The connection of the current item: its parent, or the item itself.
CurrentConnection == IF current = NoItem THEN NoItem ELSE <<current[1], 0>>

\* Navigator::expandCurrentConnection
ExpandCurrentConnection ==
    /\ expanded' = IF CurrentConnection # NoItem
                   THEN expanded \cup {CurrentConnection[1]} ELSE expanded
    /\ NavigatorOutputs("expandCurrentConnection")
    /\ UNCHANGED <<tree, current, selected, itemData>>

\* Navigator::collapseCurrentConnection
CollapseCurrentConnection ==
    /\ IF CurrentConnection # NoItem
       THEN setCurrentItem(CurrentConnection,
                           expanded \ {CurrentConnection[1]})
       ELSE UNCHANGED <<expanded, current, selected>>
    /\ NavigatorOutputs("collapseCurrentConnection")
    /\ UNCHANGED <<tree, itemData>>

\* QTreeWidgetItemIterator(d.tree, Unselected): the unselected items in order.
Unselected ==
    LET NotSelected(item) == item \notin selected
    IN SelectSeq(TreeItems, NotSelected)

RECURSIVE MostActive_LatestOnTies(_, _)
MostActive_LatestOnTies(items, mostActive) ==
    IF items = <<>> THEN mostActive
    ELSE LET item == Head(items)
             badge == itemData[item].badge
         IN IF itemData[item].highlight THEN item
            ELSE MostActive_LatestOnTies(
                    Tail(items),
                    IF badge > 0 /\ (mostActive = NoItem
                                     \/ itemData[mostActive].badge <= badge)
                    THEN item ELSE mostActive)

\* The loop of Navigator::moveToMostActiveItem over the items left to visit:
\* the first highlighted item ends it; mostActive is the backup so far.
RECURSIVE MostActive(_, _)
MostActive(items, mostActive) ==
    IF items = <<>> THEN mostActive
    ELSE LET item == Head(items)
             badge == itemData[item].badge
         IN IF itemData[item].highlight THEN item
            ELSE MostActive(Tail(items),
                            IF badge > 0 /\ (mostActive = NoItem
                                             \/ itemData[mostActive].badge < badge)
                            THEN item ELSE mostActive)

\* Navigator::moveToMostActiveItem
MoveToMostActiveItem ==
    /\ LET item == MostActive(Unselected, NoItem)
       IN IF item # NoItem THEN setCurrentItem(item, expanded)
          ELSE UNCHANGED <<expanded, current, selected>>
    /\ NavigatorOutputs("moveToMostActiveItem")
    /\ UNCHANGED <<tree, itemData>>

\* No tree widget: the state of the Navigator variables beside a session.
NoNavigator ==
    /\ tree = <<>>
    /\ expanded = {}
    /\ current = NoItem
    /\ selected = {}
    /\ itemData = <<>>

-----------------------------------------------------------------------------
(* The session: from construction, any call and any notification *)

\* The session after construction.
Constructed ==
    /\ socket = TRUE
    /\ sockState = "Unconnected"
    /\ peer = NoPeer
    /\ host = <<>>
    /\ port = DefaultPort
    /\ userName = <<>>
    /\ nickName = <<>>
    /\ realName = <<>>
    /\ buffer = <<>>
    /\ mainBuffer = 0
    /\ buffers = <<>>
    /\ heap = <<>>
    /\ op = Op("IrcSession", <<>>)
    /\ events = <<>>
    /\ io = <<>>
    /\ dispatched = <<>>
    /\ ret = 0
    /\ pending = <<>>
    /\ stream = <<>>
    /\ yielded = <<>>
    /\ sent = <<>>
    /\ welcomes = 0
    /\ connCount = 0
    /\ opened = Settings

Init == Constructed /\ NoNavigator

Hosts == {<<>>, <<"h">>}
Ports == {DefaultPort, DefaultPort + 1}

Next ==
    \/ Open
    \/ Close
    \/ \E name \in UserNames : SetUserName(name)
    \/ \E name \in NickNames : SetNickName(name)
    \/ \E name \in RealNames : SetRealName(name)
    \/ \E fresh \in BOOLEAN : SetSocket(fresh)
    \/ \E message \in Messages : SendMessage(message)
    \/ TransportConnected
    \/ TransportFailed
    \/ TransportClosed
    \/ ReadyRead

Spec == Init /\ [][Next]_vars

-----------------------------------------------------------------------------
(* The settings: the session's calls and the notifications of its connection *)
(* attempts, with every setter and a second user name; no data arrives.      *)

ConfigUserNames == UserNames \cup {<<"v">>}

ConfigNext ==
    \/ Open
    \/ Close
    \/ \E h \in Hosts : SetHost(h)
    \/ \E p \in Ports : SetPort(p)
    \/ \E name \in ConfigUserNames : SetUserName(name)
    \/ \E name \in NickNames : SetNickName(name)
    \/ \E name \in RealNames : SetRealName(name)
    \/ \E fresh \in BOOLEAN : SetSocket(fresh)
    \/ TransportConnected
    \/ TransportFailed
    \/ TransportClosed

ConfigSpec == Init /\ [][ConfigNext]_vars

-----------------------------------------------------------------------------
(* The framer alone: a connected session receives one byte stream, cut into *)
(* chunks at any places.                                                    *)

FrameBytes == {"a", CR, LF}

RECURSIVE Streams(_)
Streams(n) ==
    IF n = 0 THEN {<<>>}
    ELSE LET shorter == Streams(n - 1)
         IN shorter \cup {Append(s, b) : s \in {t \in shorter : Len(t) = n - 1},
                                         b \in FrameBytes}

\* A session whose transport has connected once and has received nothing.
Connected ==
    /\ socket = TRUE
    /\ sockState = "Connected"
    /\ host = <<"h">>
    /\ port = DefaultPort
    /\ peer = <<host, port>>
    /\ userName = <<"u">>
    /\ nickName = <<"n">>
    /\ realName = <<"r">>
    /\ buffer = <<>>
    /\ mainBuffer = 1
    /\ buffers = <<>>
    /\ heap = <<[pattern |-> S_star]>>
    /\ op = Op("_q_connected", <<>>)
    /\ events = <<>>
    /\ io = <<>>
    /\ dispatched = <<>>
    /\ ret = 0
    /\ yielded = <<>>
    /\ welcomes = 0
    /\ connCount = 1
    /\ opened = Settings
    /\ NoNavigator

FrameInit ==
    /\ Connected
    /\ stream \in Streams(MaxStream)
    /\ pending = stream
    /\ sent = <<>>

\* readyRead() with the next n bytes of the stream
FeedChunk ==
    /\ pending # <<>>
    /\ \E n \in 1..Len(pending) :
          /\ q_readData(Left(pending, n))
          /\ pending' = Mid(pending, n)
    /\ yielded' = yielded \o dispatched'
    /\ UNCHANGED <<stream, sent>>

FrameNext == FeedChunk

FrameSpec == FrameInit /\ [][FrameNext]_vars

-----------------------------------------------------------------------------
(* The buffer registry alone: addBuffer and removeBuffer in any order *)

Patterns == {<<"#", "F">>, <<"#", "f">>, <<"b">>}

\* QMultiHash::value(key): the value inserted last under key, or null.
HashValue(hash, key) ==
    LET hits == {k \in 1..Len(hash) : hash[k].key = key}
    IN IF hits = {} THEN 0
       ELSE hash[CHOOSE k \in hits : \A j \in hits : k <= j].val

\* QMultiHash::insert(key, value): one more entry, found first from now on.
HashInsert(hash, key, value) == <<[key |-> key, val |-> value]>> \o hash

\* QMultiHash::remove(key, value): drops every entry with that key and value.
HashRemove(hash, key, value) ==
    LET Keep(e) == ~(e.key = key /\ e.val = value)
    IN SelectSeq(hash, Keep)

\* IrcSession::buffer(pattern)
bufferOf(pattern) == HashValue(buffers, pattern)

\* IrcSession::addBuffer
AddBuffer(pattern) ==
    /\ Len(heap) < MaxBuffers
    /\ heap' = createBuffer(pattern)
    /\ buffers' = HashInsert(buffers, pattern, Len(heap) + 1)
    /\ Outputs(Op("addBuffer", pattern), <<>>, <<>>, Len(heap) + 1)
    /\ UNCHANGED <<socket, sockState, config, buffer, mainBuffer, harness,
                   welcomes, connCount, attempt,
                   navigator>>

\* IrcSession::removeBuffer; b = 0 is the null pointer.
RemoveBuffer(b) ==
    /\ buffers' = IF b # 0 THEN HashRemove(buffers, heap[b].pattern, b)
                  ELSE buffers
    /\ Outputs(Op("removeBuffer", <<b>>), <<>>, <<>>, 0)
    /\ UNCHANGED <<socket, sockState, config, buffer, mainBuffer, heap,
                   harness, welcomes, connCount, attempt,
                   navigator>>

RegistryNext ==
    \/ \E pattern \in Patterns : AddBuffer(pattern)
    \/ \E b \in 0..Len(heap) : RemoveBuffer(b)

RegistrySpec == Init /\ [][RegistryNext]_vars

-----------------------------------------------------------------------------
(* The dispatcher alone: a connected session receives whole lines, each     *)
(* built from a prefix, a command and parameters.                           *)

P_chan == <<"#", "c">>
P_local == <<"&", "c">>
P_nick == <<"n">>
P_text == <<"h", "i">>
P_action == <<SOH>> \o S_ACTION \o <<SP, "w", SOH>>
P_actionNoText == <<SOH>> \o S_ACTION \o <<SOH>>
P_request == <<SOH, "V", SOH>>
P_quoted == S_ACTION \o <<SP, "w">>

SecondParams == {<<>>, P_text, P_action, P_actionNoText, P_request, P_quoted}

ParamLists ==
    {<<>>, <<P_chan>>, <<P_nick>>, <<P_local>>}
    \cup {<<t, x>> : t \in {P_chan, P_nick, P_request}, x \in SecondParams}
    \cup {<<P_chan, <<"+", "o">>, P_nick>>, <<P_nick, <<"+", "i">>>>,
          <<P_nick, P_chan>>}

FixedCommands ==
    {S_JOIN, S_PART, S_TOPIC, S_NAMES, S_LIST, S_INVITE, S_KICK, S_MODE,
     S_PRIVMSG, S_NOTICE, S_WHO, S_WHOIS, S_WHOWAS}

NumericCommands == {<<"0", "0", "1">>, <<"3", "7", "2">>, <<"1">>}

OtherCommands ==
    {S_PING, S_NICK, S_QUIT, S_KILL, <<"-", "1">>, <<"+", "1">>,
     <<"p", "i", "n", "g">>}

Commands == FixedCommands \cup NumericCommands \cup OtherCommands

Line(prefix, command, params) ==
    [prefix |-> prefix, command |-> command, params |-> params]

DispatchLines ==
    {Line(x, c, ps) : x \in {<<>>, P_nick}, c \in Commands, ps \in ParamLists}

\* The lines delivered several to a notification.
OrderLines ==
    { Line(<<>>, S_PING, <<<<"a">>>>),
      Line(<<>>, <<"0", "0", "1">>, <<P_nick>>),
      Line(P_nick, S_JOIN, <<P_chan>>),
      Line(P_nick, S_NICK, <<<<"x">>>>),
      Line(P_nick, S_PRIVMSG, <<P_chan, P_action>>) }

RECURSIVE LineSeqs(_)
LineSeqs(n) ==
    IF n = 0 THEN {<<>>}
    ELSE LET shorter == LineSeqs(n - 1)
         IN shorter \cup {Append(ls, l) : ls \in {t \in shorter : Len(t) = n - 1},
                                          l \in OrderLines}

Deliveries == {<<l>> : l \in DispatchLines} \cup (LineSeqs(MaxLines) \ {<<>>})

\* The text of a line on the wire: the last parameter after a colon when it
\* is empty, holds a space or starts with a colon.
NeedsColon(param) ==
    param = <<>> \/ Head(param) = ":" \/ \E k \in 1..Len(param) : param[k] = SP

RECURSIVE WireParams(_)
WireParams(params) ==
    IF params = <<>> THEN <<>>
    ELSE IF Len(params) = 1
    THEN <<SP>> \o (IF NeedsColon(params[1]) THEN <<":">> ELSE <<>>)
         \o params[1]
    ELSE <<SP>> \o params[1] \o WireParams(Tail(params))

Wire(l) ==
    (IF l.prefix # <<>> THEN <<":">> \o l.prefix \o <<SP>> ELSE <<>>)
    \o l.command \o WireParams(l.params)

WireAll(ls) == Flatten([k \in 1..Len(ls) |-> Wire(ls[k]) \o CRLF])

DispatchInit ==
    /\ Connected
    /\ sent \in Deliveries
    /\ stream = WireAll(sent)
    /\ pending = stream

\* readyRead() with the next whole lines of the stream
Deliver ==
    /\ \E n \in 2..Len(pending) :
          /\ pending[n - 1] = CR /\ pending[n] = LF
          /\ q_readData(Left(pending, n))
          /\ pending' = Mid(pending, n)
    /\ yielded' = yielded \o dispatched'
    /\ UNCHANGED <<stream, sent>>

DispatchNext == Deliver

DispatchSpec == DispatchInit /\ [][DispatchNext]_vars

-----------------------------------------------------------------------------
(* The Navigator alone, beside a session that is left as constructed.       *)

\* the most top-level items of a tree
MaxTop == 2
\* the most children of a top-level item
MaxChildren == 2
\* the greatest badge count of an item
MaxBadge == 2

RECURSIVE Trees(_)
Trees(n) ==
    IF n = 0 THEN {<<>>}
    ELSE LET shorter == Trees(n - 1)
         IN shorter \cup {Append(t, c) : t \in {u \in shorter : Len(u) = n - 1},
                                         c \in 0..MaxChildren}

NoActivity(t) ==
    [item \in {ItemsInOrder(t)[k] : k \in 1..Len(ItemsInOrder(t))} |->
        [highlight |-> FALSE, badge |-> 0]]

\* A non-empty tree, any of its connections expanded, the current item one
\* that is shown.
NavigationInit ==
    /\ Constructed
    /\ tree \in Trees(MaxTop) \ {<<>>}
    /\ expanded \in SUBSET (1..Len(tree))
    /\ current \in {item \in {TreeItems[k] : k \in 1..Len(TreeItems)} :
                        Shown(item, expanded)}
    /\ selected = {current}
    /\ itemData = NoActivity(tree)

NavigationNext ==
    \/ MoveToNextItem
    \/ MoveToPrevItem
    \/ ExpandCurrentConnection
    \/ CollapseCurrentConnection

NavigationSpec == NavigationInit /\ [][NavigationNext]_vars

\* The trees of three items.
ActivityTrees == {<<2>>, <<1, 0>>, <<0, 1>>}

Activities == [highlight : BOOLEAN, badge : 0..MaxBadge]

\* Any activity on the items of a tree, the current item selected.
ActivityInit ==
    /\ Constructed
    /\ tree \in ActivityTrees
    /\ expanded \in SUBSET (1..Len(tree))
    /\ current \in {TreeItems[k] : k \in 1..Len(TreeItems)}
    /\ selected = {current}
    /\ itemData \in [{TreeItems[k] : k \in 1..Len(TreeItems)} -> Activities]

ActivityNext == MoveToMostActiveItem

ActivitySpec == ActivityInit /\ [][ActivityNext]_vars

-----------------------------------------------------------------------------
(* Claims *)

\* The lines one data-available notification dispatches for the whole stream.
WholeStreamLines == Framed(stream).lines

\* C1: framing is chunk-boundary-invariant: once the whole stream has been
\* delivered, in whatever chunks, the lines handed to processLine are those
\* a single notification with the whole stream hands to it.
C1_ChunkBoundaryInvariant ==
    pending = <<>> => yielded = WholeStreamLines

IsPingLine(line) == Parse(line).command = S_PING

Pong(line) == Write(S_PONG \o <<SP>> \o Value(Parse(line).params, 0) \o CRLF)

PingLines(lines) == SelectSeq(lines, IsPingLine)

\* C2: every received PING line is answered by exactly one write, of PONG with
\* the line's first parameter and \r\n; the handler writes nothing else, emits
\* no event for a PING line (none at all when it dispatched only PING lines)
\* and changes no session state.
C2_PingAnswered ==
    [][op'.name = "_q_readData" =>
        /\ io' = [k \in 1..Len(PingLines(dispatched')) |->
                     Pong(PingLines(dispatched')[k])]
        /\ \A k \in 1..Len(events') : ~IsPingLine(events'[k].line)
        /\ (PingLines(dispatched') = dispatched' => events' = <<>>)
        /\ UNCHANGED session]_vars

C2_Witness ==
    /\ op.name = "_q_readData"
    /\ sockState = "Connected"
    /\ dispatched = <<L_PingA>>
    /\ io = <<Write(S_PONG \o <<SP, "a", CR, LF>>)>>
    /\ events = <<>>

\* QString::toLower, on the letters the patterns use
UpperCase == <<"A", "B", "C", "F">>
LowerCase == <<"a", "b", "c", "f">>

Lower(c) ==
    IF \E k \in 1..Len(UpperCase) : UpperCase[k] = c
    THEN LowerCase[CHOOSE k \in 1..Len(UpperCase) : UpperCase[k] = c]
    ELSE c

ToLower(str) == [k \in 1..Len(str) |-> Lower(str[k])]

EqualIgnoringCase(p, q) == ToLower(p) = ToLower(q)

\* C3: addBuffer is idempotent by case-insensitive key: when a Buffer is
\* registered under a pattern equal to p ignoring case, addBuffer(p) returns
\* that Buffer and creates no other.
C3_AddBufferIdempotent ==
    [][op'.name = "addBuffer" =>
        \A k \in 1..Len(buffers) :
            EqualIgnoringCase(buffers[k].key, op'.arg) =>
                (ret' = buffers[k].val /\ heap' = heap)]_vars

\* C4: open() with an empty userName, nickName or realName makes no socket
\* call, emits nothing and changes nothing; a connect is initiated only when
\* all three are non-empty.
C4_OpenRefusedOnEmptyName ==
    [][op'.name = "open" =>
        /\ (userName = <<>> \/ nickName = <<>> \/ realName = <<>>) =>
              /\ io' = <<>>
              /\ events' = <<>>
              /\ UNCHANGED <<session, buffer, welcomes, connCount>>
        /\ (\E k \in 1..Len(io') : io'[k].call = "connectToHost") =>
              (userName # <<>> /\ nickName # <<>> /\ realName # <<>>)]_vars

C4_Witness ==
    /\ op.name = "open"
    /\ userName # <<>> /\ nickName # <<>> /\ realName = <<>>
    /\ socket /\ sockState = "Unconnected"
    /\ io = <<>>

\* The states of the connection, on a session's first connection.
Idle == connCount = 0 /\ sockState = "Unconnected"
Connecting == connCount = 0 /\ sockState = "Connecting"
Registering == connCount = 1 /\ sockState = "Connected" /\ welcomes = 0
WelcomeSeen == connCount >= 1 /\ welcomes > 0

IsMainBuffer(b) ==
    b # 0 /\ b \in 1..Len(heap) /\ heap[b].pattern = S_star

C6_MainBufferCreatedOnce ==
    [][mainBuffer # 0 =>
          (mainBuffer' = mainBuffer /\ Len(heap') = Len(heap))]_vars

\* C7: connected() is signalled exactly once per connection, however many
\* welcome numerics the connection receives.
C7_ConnectedOncePerConnection == welcomes <= 1

IsMessage(e) == e.type = "messageReceived"

AllDigits(str) == str # <<>> /\ \A k \in 1..Len(str) : str[k] \in Digits

\* The lines C8 is about: a numeric command or one of the fixed set.
Classified(l) == AllDigits(l.command) \/ l.command \in FixedCommands

ClassifiedWires == {Wire(sent[k]) : k \in {j \in 1..Len(sent) : Classified(sent[j])}}

SentWires == [k \in 1..Len(sent) |-> Wire(sent[k])]

LinesOf(evs) == [k \in 1..Len(evs) |-> evs[k].line]

\* C8: every framed line with a numeric or fixed-set command causes exactly
\* one messageReceived, carrying its prefix and parameters, and the messages
\* come in the arrival order of their lines.
C8_OneMessagePerLineInOrder ==
    LET FromClassified(e) == IsMessage(e) /\ e.line \in ClassifiedWires
        IsClassifiedWire(w) == w \in ClassifiedWires
    IN /\ yielded = SubSeq(SentWires, 1, Len(yielded))
       /\ pending = <<>> => yielded = SentWires
       /\ op.name = "_q_readData" =>
             /\ LinesOf(SelectSeq(events, FromClassified))
                   = SelectSeq(dispatched, IsClassifiedWire)
             /\ \A k \in 1..Len(events) : IsMessage(events[k]) =>
                   \E j \in 1..Len(sent) :
                       /\ Wire(sent[j]) = events[k].line
                       /\ events[k].prefix = sent[j].prefix
                       /\ events[k].params = sent[j].params

C8_Witness ==
    /\ pending = <<>>
    /\ sent = <<Line(P_nick, S_JOIN, <<P_chan>>),
                Line(<<>>, <<"0", "0", "1">>, <<P_nick>>)>>
    /\ op.arg = stream
    /\ Len(events) = 3
    /\ events[1].kind = "Join"
    /\ events[2].type = "connected"
    /\ events[3].kind = "Numeric"

\* The second parameter of a line, empty when it has none.
SecondParam(l) == IF Len(l.params) >= 2 THEN l.params[2] ELSE <<>>
FirstParam(l) == IF Len(l.params) >= 1 THEN l.params[1] ELSE <<>>

Begins(str, c) == str # <<>> /\ str[1] = c

CtcpKind(l) ==
    IF l.command = S_PRIVMSG
    THEN IF StartsWith(SecondParam(l), <<SOH>> \o S_ACTION \o <<SP>>)
         THEN "CtcpAction"
         ELSE IF Begins(SecondParam(l), SOH) THEN "CtcpRequest"
         ELSE "Private"
    ELSE IF Begins(SecondParam(l), SOH) THEN "CtcpReply" ELSE "Notice"

\* The line alone in its stream, once delivered.
Alone(l) == pending = <<>> /\ sent = <<l>>

\* C9: a PRIVMSG is a CTCP action when its second parameter starts with the
\* delimiter and "ACTION ", a CTCP request when it starts with the delimiter
\* alone, a plain private message otherwise (also with no second parameter);
\* a NOTICE is a CTCP reply when its second parameter starts with the
\* delimiter and a plain notice otherwise.
C9_CtcpBySecondParameter ==
    \A l \in DispatchLines :
        (Alone(l) /\ l.command \in {S_PRIVMSG, S_NOTICE}) =>
            /\ Len(events) = 1
            /\ IsMessage(events[1])
            /\ events[1].kind = CtcpKind(l)

C9_Witness ==
    /\ Alone(Line(P_nick, S_PRIVMSG, <<P_chan, P_action>>))
    /\ Len(events) = 1
    /\ events[1].kind = "CtcpAction"
    /\ events[1].prefix = P_nick
    /\ events[1].params = <<P_chan, P_action>>

\* C10: a MODE line yields a channel-mode message if and only if its first
\* parameter begins with "#", a user-mode message otherwise (also with no
\* parameters), and exactly one message.
C10_ModeByFirstParameter ==
    \A l \in DispatchLines :
        (Alone(l) /\ l.command = S_MODE) =>
            /\ Len(events) = 1
            /\ IsMessage(events[1])
            /\ events[1].kind \in {"ChannelMode", "UserMode"}
            /\ events[1].kind = "ChannelMode" <=> Begins(FirstParam(l), "#")

C10_Witness ==
    /\ Alone(Line(P_nick, S_MODE, <<P_chan, <<"+", "o">>, P_nick>>))
    /\ Len(events) = 1
    /\ events[1].kind = "ChannelMode"

\* The Buffers the registry holds under a key equal to key ignoring case.
RegisteredUnder(key) ==
    {buffers[k].val : k \in {j \in 1..Len(buffers) :
                                EqualIgnoringCase(buffers[j].key, key)}}

\* C11: in every state addBuffer and removeBuffer calls reach, the registry
\* holds at most one Buffer per lower-cased pattern, and buffer(p) and
\* buffer(q) are the same Buffer (or both null) whenever p and q are equal
\* ignoring case.
C11_OneBufferPerLowerCasedPattern ==
    \A p \in Patterns :
        /\ Cardinality(RegisteredUnder(p)) <= 1
        /\ \A q \in Patterns :
              EqualIgnoringCase(p, q) => bufferOf(p) = bufferOf(q)

\* Whether Buffer b is in the registry hash under its own pattern.
Registered(hash, b) ==
    /\ b # 0
    /\ \E k \in 1..Len(hash) :
          hash[k].key = heap[b].pattern /\ hash[k].val = b

BufferRemoved(b) == [Signal("bufferRemoved") EXCEPT !.params = <<b>>]

\* C12: removeBuffer(b) detaches b and emits a removal event exactly when b
\* was registered under its key: then buffer(b's pattern) no longer returns b
\* and one removal event is emitted; for a Buffer that is not registered, or
\* null, the registry is unchanged and nothing is emitted.
C12_RemoveBufferEmitsIffRegistered ==
    [][op'.name = "removeBuffer" =>
        LET b == op'.arg[1]
        IN IF Registered(buffers, b)
           THEN /\ HashValue(buffers', heap[b].pattern) # b
                /\ ~Registered(buffers', b)
                /\ events' = <<BufferRemoved(b)>>
           ELSE /\ buffers' = buffers
                /\ events' = <<>>]_vars

\* IrcSessionPrivate::isConnected
isConnected == socket /\ sockState \in {"Connecting", "Connected"}

UserLine(user, real) ==
    S_USER \o <<SP>> \o user \o <<SP>> \o S_unknown \o <<SP>> \o S_unknown
    \o <<SP, ":">> \o real \o CRLF

\* C13: setHost, setPort, setUserName and setRealName called while the
\* session is connecting or connected have no effect on the current
\* connection: the host and port the socket connects to, and the user name
\* and real name of the USER command written when the transport connects, are
\* those in force when open() was called, whatever setters were called since.
C13_SettersLeaveConnectionAlone ==
    /\ isConnected => peer = <<opened.host, opened.port>>
    /\ op.name = "_q_connected" =>
          io[Len(io)] = Write(UserLine(opened.userName, opened.realName))

Calls(name) == {k \in 1..Len(io) : io[k].call = name}

\* C14: there is no automatic reconnection: on the transport's closure the
\* session emits disconnected and makes no socket call; a connect is asked of
\* the socket, and an attempt starts, only within an open() call; and while
\* the socket is neither connecting nor connected the session makes a socket
\* call only within an open(), close() or sendMessage() call of the
\* application, and a write only within sendMessage().
C14_NoAutomaticReconnect ==
    [][/\ op'.name = "_q_disconnected" =>
            /\ events' = <<Signal("disconnected")>>
            /\ io' = <<>>
            /\ sockState' = "Unconnected"
       /\ (\E k \in 1..Len(io') : io'[k].call = "connectToHost") =>
            op'.name = "open"
       /\ (sockState # "Connecting" /\ sockState' = "Connecting") =>
            op'.name = "open"
       /\ (~isConnected /\ io' # <<>>) =>
            op'.name \in {"open", "close", "sendMessage"}
       /\ (~isConnected /\ \E k \in 1..Len(io') : io'[k].call = "write") =>
            op'.name = "sendMessage"]_vars

C14_Witness ==
    /\ op.name = "_q_disconnected"
    /\ connCount = 1
    /\ sockState = "Unconnected"
    /\ events = <<Signal("disconnected")>>
    /\ io = <<>>

\* The command of a written line: its bytes before the first space.
WrittenCommand(data) == Left(data, IndexOf(data, <<SP>>))

PasswordSolicited == {k \in 1..Len(events) : events[k].type = "password"}

\* C15: on every transport-connected notification the session asks for the
\* password exactly once and then writes PASS (only when the password it was
\* given is not empty), NICK and USER, in this order and nothing else; no
\* other handler writes one of these commands, so NICK and USER are written
\* once per connection.
C15_HandshakeOrder ==
    /\ op.name = "_q_connected" =>
          /\ Cardinality(PasswordSolicited) = 1
          /\ Calls("write") = 1..Len(io)
          /\ [k \in 1..Len(io) |-> WrittenCommand(io[k].data)] =
                IF op.arg = <<>> THEN <<S_NICK, S_USER>>
                ELSE <<S_PASS, S_NICK, S_USER>>
          /\ op.arg # <<>> =>
                io[1].data = S_PASS \o <<SP>> \o op.arg \o CRLF
          /\ io[Len(io) - 1].data = S_NICK \o <<SP>> \o nickName \o CRLF
          /\ io[Len(io)].data = UserLine(userName, realName)
    /\ op.name \notin {"_q_connected", "sendMessage"} =>
          \A k \in Calls("write") :
             WrittenCommand(io[k].data) \notin {S_PASS, S_NICK, S_USER}

C15_Witness ==
    /\ op.name = "_q_connected"
    /\ op.arg = <<"p">>
    /\ Len(io) = 3
    /\ io[1] = Write(S_PASS \o <<SP, "p", CR, LF>>)
    /\ sockState = "Connected"

\* The bytes of the stream delivered so far.
Delivered == Left(stream, Len(stream) - Len(pending))

\* The bytes of s that follow its last LF; all of s if it has none.
RECURSIVE AfterLastLF(_)
AfterLastLF(s) ==
    IF IndexOf(s, <<LF>>) = -1 THEN s
    ELSE AfterLastLF(Mid(s, IndexOf(s, <<LF>>) + 1))

\* C16: after every completed _q_readData the raw line buffer holds no line
\* terminator (no \n, hence no \r\n): every complete line has been drained
\* and what stays buffered is exactly the bytes received after the last
\* terminator.
C16_NoTerminatorLeftBuffered ==
    op.name = "_q_readData" =>
        /\ IndexOf(buffer, <<LF>>) = -1
        /\ IndexOf(buffer, CRLF) = -1
        /\ buffer = AfterLastLF(Delivered)

C16_Witness ==
    /\ op.name = "_q_readData"
    /\ op.arg = <<"a", LF, "a">>
    /\ dispatched = <<<<"a">>>>
    /\ buffer = <<"a">>

EndsWithCRLF(s) == Len(s) >= 2 /\ SubSeq(s, Len(s) - 1, Len(s)) = CRLF

\* C17: a stream in which every line ends with \r\n is never split at a bare
\* \n: once it has been delivered, in whatever chunks, the lines dispatched are
\* the non-empty trimmed spans between its \r\n delimiters.
C17_CrLfStreamNotSplitAtBareLf ==
    (pending = <<>> /\ EndsWithCRLF(stream)) =>
        yielded = readLines(stream, CRLF).lines

\* An integer as written: digits, after a sign or without one.
IsInteger(str) ==
    \/ AllDigits(str)
    \/ (str # <<>> /\ Head(str) \in {"+", "-"} /\ AllDigits(Tail(str)))

\* The lines C18 is about: the command is no integer, not PING and not one of
\* the fixed set.
Unclassified(l) ==
    ~IsInteger(l.command) /\ l.command # S_PING /\ l.command \notin FixedCommands

UnclassifiedWires ==
    {Wire(sent[k]) : k \in {j \in 1..Len(sent) : Unclassified(sent[j])}}

\* C18: a line whose command is neither an integer nor one of the fixed set
\* (NICK, QUIT, KILL, ...) causes no messageReceived and no write, and the
\* notification that dispatches it leaves the socket, the settings, the
\* buffer registry and the main buffer unchanged.
C18_UnclassifiedLineIgnored ==
    [][op'.name = "_q_readData" =>
        /\ \A k \in 1..Len(events') : events'[k].line \notin UnclassifiedWires
        /\ (\A j \in 1..Len(dispatched') :
                dispatched'[j] \in UnclassifiedWires) =>
              (events' = <<>> /\ io' = <<>>)
        /\ UNCHANGED session]_vars

C18_Witness ==
    /\ Alone(Line(P_nick, S_KILL, <<P_nick>>))
    /\ op.name = "_q_readData"
    /\ dispatched = <<Wire(Line(P_nick, S_KILL, <<P_nick>>))>>
    /\ events = <<>>
    /\ io = <<>>

\* C19: the raw line buffer is changed only by _q_readData: open(), close(),
\* the connected and disconnected notifications, setSocket(), sendMessage()
\* and every other call leave it as it is, also over a disconnect and a new
\* open(); _q_readData appends the data to it and keeps what follows the last
\* terminator, so bytes without a terminator stay buffered until one arrives.
C19_BufferChangedOnlyByFramer ==
    [][/\ op'.name # "_q_readData" => buffer' = buffer
       /\ op'.name = "_q_readData" =>
            buffer' = AfterLastLF(buffer \o op'.arg)]_vars

C19_Witness ==
    /\ op.name = "_q_connected"
    /\ connCount = 2
    /\ buffer = <<"P", "I">>

\* C20: sendMessage makes one write of the message and \r\n if there is a
\* socket and none otherwise, never a second one; it returns false exactly
\* when there is no socket or the socket's write returned -1, true otherwise;
\* and it changes nothing of the session, the raw line buffer included.
C20_SendMessageReportsFailure ==
    [][op'.name = "sendMessage" =>
        /\ io' = IF socket THEN <<Write(op'.arg.message \o CRLF)>> ELSE <<>>
        /\ ret' \in BOOLEAN
        /\ ret' = FALSE <=> (~socket \/ op'.arg.written = -1)
        /\ UNCHANGED <<session, buffer, welcomes, connCount>>]_vars

C20_Witness ==
    /\ op.name = "sendMessage"
    /\ socket /\ sockState = "Connected"
    /\ op.arg.written = -1
    /\ io = <<Write(S_QUIT \o CRLF)>>
    /\ ret = FALSE

Emitted(evs, type) == \E k \in 1..Len(evs) : evs[k].type = type

NonNegativeInteger(str) ==
    \/ AllDigits(str)
    \/ (str # <<>> /\ Head(str) = "+" /\ AllDigits(Tail(str)))

\* C22: a line gives a Numeric message if and only if its command is a
\* non-negative integer: digits always do, whatever else the command could
\* match, and any other token, such as -1, never does.
C22_NumericIffUnsignedInteger ==
    \A l \in DispatchLines :
        Alone(l) =>
            /\ AllDigits(l.command) =>
                  /\ events # <<>>
                  /\ events[Len(events)].kind = "Numeric"
            /\ ~NonNegativeInteger(l.command) =>
                  \A k \in 1..Len(events) : events[k].kind # "Numeric"

ShownItems ==
    LET IsShown(item) == Shown(item, expanded)
    IN SelectSeq(TreeItems, IsShown)

LastShown == ShownItems[Len(ShownItems)]

\* C24: the Navigator keeps the cursor on a shown item: after
\* moveToNextItem, moveToPrevItem, expandCurrentConnection or
\* collapseCurrentConnection the current item is a top-level item or a child
\* of an expanded one; moveToNextItem on the last shown item goes to the
\* first top-level item, and moveToPrevItem on the first item goes to the last
\* shown item.
C24_CursorStaysVisible ==
    [][/\ current' # NoItem
       /\ Shown(current', expanded')
       /\ (op'.name = "moveToNextItem" /\ current = LastShown) =>
             current' = <<1, 0>>
       /\ (op'.name = "moveToPrevItem" /\ current = <<1, 0>>) =>
             current' = LastShown]_vars

UnselectedItems ==
    {TreeItems[k] : k \in 1..Len(TreeItems)} \ selected

\* The item of a non-empty set that comes first in tree order.
Earliest(items) ==
    CHOOSE item \in items :
        \A other \in items : Position(item) <= Position(other)

Highlighted == {item \in UnselectedItems : itemData[item].highlight}

Badged == {item \in UnselectedItems : itemData[item].badge > 0}

GreatestBadge ==
    {item \in Badged :
        \A other \in Badged : itemData[other].badge <= itemData[item].badge}

\* C25: moveToMostActiveItem makes current the first unselected item, in tree
\* order, that is highlighted; with none highlighted, the unselected item of
\* the greatest positive badge, the earliest of them on ties; with neither,
\* it leaves the current item, the selection and the tree as they are.
C25_MostActiveItem ==
    [][op'.name = "moveToMostActiveItem" =>
        IF Highlighted # {} THEN current' = Earliest(Highlighted)
        ELSE IF Badged # {} THEN current' = Earliest(GreatestBadge)
        ELSE UNCHANGED navigator]_vars

\* The badge fallback on a tie: the first of two items of badge 2 is chosen
\* (the item before them has the lesser badge).
C25_Witness ==
    /\ op.name = "moveToMostActiveItem"
    /\ tree = <<2>>
    /\ \A k \in 1..Len(TreeItems) : ~itemData[TreeItems[k]].highlight
    /\ itemData[<<1, 0>>].badge = 1
    /\ itemData[<<1, 1>>].badge = 2
    /\ itemData[<<1, 2>>].badge = 2
    /\ current = <<1, 1>>

=============================================================================
